---- MODULE Spec2Model ----
(***************************************************************************)
(* Model of the packet serializer of @osmium/coder                         *)
(* (src/src/classes/Serializer.ts): the schema registry, the packet        *)
(* header built by makePacket, serialize and deserialize.                  *)
(*                                                                         *)
(* Buffers are sequences of bytes (0..255).  A payload object is the       *)
(* sequence of its <<key, value>> pairs in insertion order, which is the   *)
(* order Object.keys and iterateSync visit them in.  TLC's integers are    *)
(* 32-bit signed, so the unsigned 32-bit CRC is kept as its four bytes.    *)
(***************************************************************************)
EXTENDS Integers, Sequences, FiniteSets, TLC

VARIABLES
    schemes,                     \* Serializer.schemes: id -> stored field list
    compressionLengthThreshold,  \* Serializer.compressionLengthThreshold
    enableCompression,           \* Serializer.enableCompression
    options,                     \* Serializer.options (the copy made at construction)
    acceptedThreshold,           \* history: the last value setCompressionThreshold accepted
    pkt,                         \* the packet the caller holds, with how it was built
    last,                        \* the last call and its outcome
    caller                       \* the arrays and the options object the caller holds

vars == <<schemes, compressionLengthThreshold, enableCompression, options,
          acceptedThreshold, pkt, last, caller>>

instance == <<schemes, compressionLengthThreshold, enableCompression, options>>

----------------------------------------------------------------------------
\* Bounds of the model.

MaxSchemaId == 1
MaxThreshold == 2

\* Field names.  "a".localeCompare("B") < 0 although "B" < "a" by code unit.
Names == {"a", "B"}

SchemaIds == 0 .. MaxSchemaId

\* The value a payload gives each field: a small integer, different for
\* different fields.
FieldValue == [n \in Names |-> IF n = "a" THEN 1 ELSE 2]
Bytes == 0 .. 255

----------------------------------------------------------------------------
\* Program constants.

Version == 3
DefaultThreshold == 1024

----------------------------------------------------------------------------
\* Sequences helpers.

Range(s) == {s[i] : i \in DOMAIN s}

SeqsUpTo(S, n) == UNION {[1 .. k -> S] : k \in 0 .. n}

IsInjective(s) == \A i, j \in DOMAIN s : s[i] = s[j] => i = j

\* Two names that are different strings and canonically equivalent: the
\* precomposed U+00E9 and the decomposed U+0065 U+0301.  localeCompare
\* returns 0 on canonically equivalent strings.
TieNames == {"e-nfc", "e-nfd"}

\* String.prototype.localeCompare on the field names of the model.
LocaleRank ==
    [n \in Names \cup {""} \cup TieNames |->
        CASE n = "" -> 0 [] n = "a" -> 1 [] n = "B" -> 2 [] n \in TieNames -> 3]

LocaleCompare(x, y) ==
    IF LocaleRank[x] < LocaleRank[y] THEN -1
    ELSE IF LocaleRank[x] > LocaleRank[y] THEN 1 ELSE 0

\* Insert x into the sorted sequence s after every element that does not
\* compare greater (Array.prototype.sort is stable).
RECURSIVE InsertSorted(_, _)
InsertSorted(s, x) ==
    IF s = <<>> THEN <<x>>
    ELSE IF LocaleCompare(x, Head(s)) < 0 THEN <<x>> \o s
    ELSE <<Head(s)>> \o InsertSorted(Tail(s), x)

RECURSIVE SortLocaleFrom(_, _)
SortLocaleFrom(acc, s) ==
    IF s = <<>> THEN acc ELSE SortLocaleFrom(InsertSorted(acc, Head(s)), Tail(s))

\* [...fields].sort((a, b) => a.localeCompare(b))
SortLocale(s) == SortLocaleFrom(<<>>, s)

----------------------------------------------------------------------------
\* CoderTools: numeric conversions and bit flags.

\* CoderTools.int8UToBuf
Int8UToBuf(n) == <<n>>

\* A variant that writes the most significant byte first (writeUInt32BE).
Int32UToBufBE(n) ==
    <<(n \div 16777216) % 256, (n \div 65536) % 256, (n \div 256) % 256, n % 256>>

\* CoderTools.int32UToBuf(int): be defaults to false, so writeUInt32LE.
Int32UToBuf(n) ==
    <<n % 256, (n \div 256) % 256, (n \div 65536) % 256, (n \div 16777216) % 256>>

\* CoderTools.bufToInt8U(buf, offset)
BufToInt8U(buf, offset) == buf[offset + 1]

\* Buffer.readUInt32LE throws a RangeError unless offset + 4 <= length.
CanReadInt32U(buf, offset) == offset + 4 <= Len(buf)

\* CoderTools.bufToInt32U(buf, offset): be defaults to false, so readUInt32LE.
\* A value of 2^31 or more does not fit TLC's integers; every id of the
\* model is smaller, so such a value is read as 2^31 - 1.
BufToInt32U(buf, offset) ==
    IF buf[offset + 4] >= 128 THEN 2147483647
    ELSE buf[offset + 1] + 256 * buf[offset + 2] + 65536 * buf[offset + 3]
         + 16777216 * buf[offset + 4]

Bit(b) == IF b THEN 1 ELSE 0

\* CoderTools.binFlagsToBuf(arr): eight slots, absent ones false, joined
\* most significant bit first and parsed as one byte.
BinFlagsToBuf(arr) ==
    LET slot(i) == IF i \in DOMAIN arr THEN Bit(arr[i]) ELSE 0
    IN  Int8UToBuf(128 * slot(1) + 64 * slot(2) + 32 * slot(3) + 16 * slot(4)
                   + 8 * slot(5) + 4 * slot(6) + 2 * slot(7) + slot(8))

\* CoderTools.bufToBinFlags(buf, offset): the byte in binary, padded to
\* eight digits, one boolean per digit.
BufToBinFlags(buf, offset) ==
    LET byte == BufToInt8U(buf, offset)
        digit(i) == CASE i = 1 -> byte \div 128
                      [] i = 2 -> (byte \div 64) % 2
                      [] i = 3 -> (byte \div 32) % 2
                      [] i = 4 -> (byte \div 16) % 2
                      [] i = 5 -> (byte \div 8) % 2
                      [] i = 6 -> (byte \div 4) % 2
                      [] i = 7 -> (byte \div 2) % 2
                      [] i = 8 -> byte % 2
    IN  [i \in 1 .. 8 |-> digit(i) = 1]

----------------------------------------------------------------------------
\* CRC-32 (reflected polynomial EDB88320), on words kept as four bytes,
\* least significant first.

RECURSIVE XorBits(_, _)
XorBits(x, y) ==
    IF x = 0 THEN y
    ELSE IF y = 0 THEN x
    ELSE ((x + y) % 2) + 2 * XorBits(x \div 2, y \div 2)

XorTable == [x \in Bytes |-> [y \in Bytes |-> XorBits(x, y)]]

XorByte(x, y) == XorTable[x][y]

XorWord(u, v) == [i \in 1 .. 4 |-> XorByte(u[i], v[i])]

ShiftRight1(w) ==
    <<(w[1] \div 2) + 128 * (w[2] % 2), (w[2] \div 2) + 128 * (w[3] % 2),
      (w[3] \div 2) + 128 * (w[4] % 2), w[4] \div 2>>

CrcPoly == <<32, 131, 184, 237>>

RECURSIVE CrcBits(_, _)
CrcBits(w, k) ==
    IF k = 0 THEN w
    ELSE CrcBits(IF w[1] % 2 = 1 THEN XorWord(ShiftRight1(w), CrcPoly)
                 ELSE ShiftRight1(w), k - 1)

CrcTable == [n \in Bytes |-> CrcBits(<<n, 0, 0, 0>>, 8)]

CrcUpdate(w, byte) ==
    LET t == CrcTable[XorByte(w[1], byte)]
    IN  <<XorByte(t[1], w[2]), XorByte(t[2], w[3]), XorByte(t[3], w[4]), t[4]>>

RECURSIVE CrcFold(_, _)
CrcFold(w, data) ==
    IF data = <<>> THEN w ELSE CrcFold(CrcUpdate(w, Head(data)), Tail(data))

\* CoderTools.int32UToBuf(CoderTools.crc32(data)): the checksum as the four
\* bytes writeUInt32LE stores.
Crc32Buf(data) ==
    XorWord(CrcFold(<<255, 255, 255, 255>>, data), <<255, 255, 255, 255>>)

\* The four bytes bufToInt32U reads the stored checksum from.
StoredCrc(buf, offset) == SubSeq(buf, offset + 1, offset + 4)

----------------------------------------------------------------------------
\* The collaborators: object coder and compressor.

\* DataCoder.encode of an array of small non-negative integers: msgpack
\* fixarray header (0x90 + length) followed by one positive fixint each.
Encode(arr) == <<144 + Len(arr)>> \o arr

IsArrayEncoding(buf) ==
    /\ buf # <<>>
    /\ buf[1] \in 144 .. 159
    /\ Len(buf) = 1 + (buf[1] - 144)
    /\ \A i \in 2 .. Len(buf) : buf[i] \in 0 .. 127

\* One byte below 128 is a positive fixint: a number, not an array.
IsNumberEncoding(buf) == Len(buf) = 1 /\ buf[1] \in 0 .. 127

\* DataCoder.decode: the message of the failure, or "" and the value: an
\* array (isArray, arr its entries) or a number (arr holds it).
Decode(buf) ==
    IF buf = <<>>
    THEN [msg |-> "Cannot decode empty or null buffer", isArray |-> FALSE, arr |-> <<>>]
    ELSE IF IsArrayEncoding(buf) THEN [msg |-> "", isArray |-> TRUE, arr |-> Tail(buf)]
    ELSE IF IsNumberEncoding(buf) THEN [msg |-> "", isArray |-> FALSE, arr |-> buf]
    ELSE [msg |-> "Failed to decode data", isArray |-> FALSE, arr |-> <<>>]

\* The compressor of the tests.  Buffer.from('COMPRESSED'):
CompressMarker == <<67, 79, 77, 80, 82, 69, 83, 83, 69, 68>>

\* Buffer.concat([Buffer.from('COMPRESSED'), data])
Compress(data) == CompressMarker \o data

\* data.subarray(10)
Decompress(data) == SubSeq(data, 11, Len(data))

----------------------------------------------------------------------------
\* Values the calls exchange.

\* An optional schema id: <<>> is null, <<id>> is the number id.
Null == <<>>

\* An error thrown by a call: its message, the two numbers and the field
\* names some messages carry.  NoErr: the call returned.
NoErr == [msg |-> "", n |-> 0, m |-> 0, names |-> <<>>]

Err(text) == [NoErr EXCEPT !.msg = text]

\* Object.keys(payload)
ObjectKeys(P) == [i \in DOMAIN P |-> P[i][1]]

HasKey(P, k) == \E i \in DOMAIN P : P[i][1] = k

\* payload[key]
ValueOf(P, k) == P[CHOOSE i \in DOMAIN P : P[i][1] = k][2]

\* obj[k] = v on an object kept as its pairs in insertion order.
AssignKey(P, k, v) ==
    IF HasKey(P, k)
    THEN [i \in DOMAIN P |-> IF P[i][1] = k THEN <<k, v>> ELSE P[i]]
    ELSE Append(P, <<k, v>>)

\* The object as a mapping, for comparisons that ignore the key order.
AsMap(P) == [k \in Range(ObjectKeys(P)) |-> ValueOf(P, k)]

\* Every payload object of the model: distinct keys, in any insertion order.
Payloads ==
    {[i \in DOMAIN ks |-> <<ks[i], FieldValue[ks[i]]>>] :
        ks \in {k \in SeqsUpTo(Names, Cardinality(Names)) : IsInjective(k)}}

----------------------------------------------------------------------------
\* Serializer.makePacket(config, data, schema).  config is this.options
\* itself, so the assignment to config.useSchema stays in the instance, and
\* so does enableCompression.

\* A variant that leaves a payload of exactly the threshold uncompressed.
CompressionDueGt(data, threshold) == Len(data) > threshold

\* data.length >= this.compressionLengthThreshold
CompressionDue(data, threshold) == Len(data) >= threshold

\* The packet assembled from the flags and the output data, with the
\* instance fields makePacket leaves behind.
AssemblePacket(config, useSchema, enable, outData, schema) ==
    [bytes |-> Int8UToBuf(Version)
               \o BinFlagsToBuf(<<enable, config.useCRC32, useSchema>>)
               \o (IF config.useCRC32 THEN Crc32Buf(outData) ELSE <<>>)
               \o (IF schema # Null /\ schema[1] # 0 THEN Int32UToBuf(schema[1])
                   ELSE <<>>)
               \o outData,
     options |-> [config EXCEPT !.useSchema = useSchema],
     enableCompression |-> enable,
     crcField |-> config.useCRC32,
     idField |-> schema # Null /\ schema[1] # 0,
     compressed |-> enable /\ config.useCompress,
     outData |-> outData]

CompressIfEnabled(config, enable, data, schema) ==
    AssemblePacket(config,
                   IF schema # Null THEN TRUE ELSE config.useSchema,
                   enable,
                   IF enable /\ config.useCompress THEN Compress(data) ELSE data,
                   schema)

MakePacket(config, threshold, enabled, data, schema) ==
    CompressIfEnabled(config,
                      IF config.useCompress THEN CompressionDue(data, threshold)
                      ELSE enabled,
                      data, schema)

----------------------------------------------------------------------------
\* Serializer.serialize(payload, schemaIdOrSchemaObject).  A schema object
\* is used for its id only, so a reference is null or a number.

Min(S) == CHOOSE x \in S : \A y \in S : x <= y

\* A variant that visits the ids in descending order.
DetectSchemaDescending(regs, P) ==
    LET payloadKeys == SortLocale(ObjectKeys(P))
        hits == {id \in DOMAIN regs :
                    /\ Len(payloadKeys) = Len(regs[id])
                    /\ \A i \in DOMAIN payloadKeys : payloadKeys[i] = regs[id][i]}
    IN  IF hits = {} THEN Null ELSE <<CHOOSE x \in hits : \A y \in hits : x >= y>>

\* The auto-detection loop.  Object.entries visits integer keys in
\* ascending numeric order; the first schema equal to the sorted keys wins.
DetectSchema(regs, P) ==
    LET payloadKeys == SortLocale(ObjectKeys(P))
        hits == {id \in DOMAIN regs :
                    /\ Len(payloadKeys) = Len(regs[id])
                    /\ \A i \in DOMAIN payloadKeys : payloadKeys[i] = regs[id][i]}
    IN  IF hits = {} THEN Null ELSE <<Min(hits)>>

\* A variant that looks for unexpected fields before anything else.
ValidatePayloadExtraFirst(schemaFields, P) ==
    LET payloadKeys == SortLocale(ObjectKeys(P))
        missingFields == SelectSeq(schemaFields, LAMBDA f : f \notin Range(payloadKeys))
        extraFields == SelectSeq(payloadKeys, LAMBDA k : k \notin Range(schemaFields))
    IN  IF extraFields # <<>>
        THEN [msg |-> "Schema validation failed: unexpected fields: NAMES",
              n |-> 0, m |-> 0, names |-> extraFields]
        ELSE IF Len(payloadKeys) # Len(schemaFields)
        THEN [msg |-> "Schema validation failed: expected N fields, got M",
              n |-> Len(schemaFields), m |-> Len(payloadKeys), names |-> <<>>]
        ELSE IF missingFields # <<>>
        THEN [msg |-> "Schema validation failed: missing fields: NAMES",
              n |-> 0, m |-> 0, names |-> missingFields]
        ELSE NoErr

\* A variant that looks for missing fields before it compares the counts.
ValidatePayloadMissingFirst(schemaFields, P) ==
    LET payloadKeys == SortLocale(ObjectKeys(P))
        missingFields == SelectSeq(schemaFields, LAMBDA f : f \notin Range(payloadKeys))
        extraFields == SelectSeq(payloadKeys, LAMBDA k : k \notin Range(schemaFields))
    IN  IF missingFields # <<>>
        THEN [msg |-> "Schema validation failed: missing fields: NAMES",
              n |-> 0, m |-> 0, names |-> missingFields]
        ELSE IF Len(payloadKeys) # Len(schemaFields)
        THEN [msg |-> "Schema validation failed: expected N fields, got M",
              n |-> Len(schemaFields), m |-> Len(payloadKeys), names |-> <<>>]
        ELSE IF extraFields # <<>>
        THEN [msg |-> "Schema validation failed: unexpected fields: NAMES",
              n |-> 0, m |-> 0, names |-> extraFields]
        ELSE NoErr

\* The three validation checks, in the order of the code.
ValidatePayload(schemaFields, P) ==
    LET payloadKeys == SortLocale(ObjectKeys(P))
        missingFields == SelectSeq(schemaFields, LAMBDA f : f \notin Range(payloadKeys))
        extraFields == SelectSeq(payloadKeys, LAMBDA k : k \notin Range(schemaFields))
    IN  IF Len(payloadKeys) # Len(schemaFields)
        THEN [msg |-> "Schema validation failed: expected N fields, got M",
              n |-> Len(schemaFields), m |-> Len(payloadKeys), names |-> <<>>]
        ELSE IF missingFields # <<>>
        THEN [msg |-> "Schema validation failed: missing fields: NAMES",
              n |-> 0, m |-> 0, names |-> missingFields]
        ELSE IF extraFields # <<>>
        THEN [msg |-> "Schema validation failed: unexpected fields: NAMES",
              n |-> 0, m |-> 0, names |-> extraFields]
        ELSE NoErr

\* iterateSync(schemaFields, key => payload[key], {}): the payload rebuilt
\* with its keys in schema order.
RECURSIVE ReorderFrom(_, _, _)
ReorderFrom(acc, schemaFields, P) ==
    IF schemaFields = <<>> THEN acc
    ELSE ReorderFrom(AssignKey(acc, Head(schemaFields), ValueOf(P, Head(schemaFields))),
                     Tail(schemaFields), P)

ReorderBySchema(schemaFields, P) == ReorderFrom(<<>>, schemaFields, P)

\* iterateSync(payload, row => row, []): the values, without the keys.
PayloadArray(P) == [i \in DOMAIN P |-> P[i][2]]

\* schema?.id || null
SchemaArg(schema) == IF schema # Null /\ schema[1] # 0 THEN schema ELSE Null

\* serialize threw before makePacket: no packet, no assignment.
NothingMade(config, enabled) ==
    [bytes |-> <<>>, options |-> config, enableCompression |-> enabled,
     crcField |-> FALSE, idField |-> FALSE, compressed |-> FALSE, outData |-> <<>>]

\* The part of serialize after the validation: encode the values and
\* make the packet.
EncodeAndPack(config, threshold, enabled, schema, out) ==
    [err |-> NoErr, schema |-> schema, encodedLen |-> Len(out),
     made |-> MakePacket(config, threshold, enabled, out, SchemaArg(schema))]

\* The part of serialize after the schema reference is resolved (ref1 is
\* the reference given, or the schema detected).
SerializeWith(regs, config, threshold, enabled, P, ref1) ==
    IF ref1 # Null /\ ref1[1] \in DOMAIN regs
    THEN IF ValidatePayload(regs[ref1[1]], P) # NoErr
         THEN [err |-> ValidatePayload(regs[ref1[1]], P), schema |-> Null,
               encodedLen |-> 0, made |-> NothingMade(config, enabled)]
         ELSE EncodeAndPack(config, threshold, enabled, ref1,
                            Encode(PayloadArray(ReorderBySchema(regs[ref1[1]], P))))
    ELSE EncodeAndPack(config, threshold, enabled, Null, Encode(PayloadArray(P)))

\* The outcome of serialize: the error thrown, or the packet and the
\* instance fields makePacket assigned.
SerializeOutcome(regs, config, threshold, enabled, P, ref) ==
    SerializeWith(regs, config, threshold, enabled, P,
                  IF ref = Null THEN DetectSchema(regs, P) ELSE ref)

----------------------------------------------------------------------------
\* Serializer.deserialize(buf) and Serializer.getPacketInfo(buf).

\* What a call returned: nothing, an array of values, or an object.
NoValue == [kind |-> "none", arr |-> <<>>, obj |-> <<>>]

ArrayValue(a) == [kind |-> "array", arr |-> a, obj |-> <<>>]

ObjectValue(o) == [kind |-> "object", arr |-> <<>>, obj |-> o]

NumberValue(n) == [kind |-> "number", arr |-> <<n>>, obj |-> <<>>]

Thrown(e) == [err |-> e, value |-> NoValue]

Returned(v) == [err |-> NoErr, value |-> v]

RangeError == Err("RangeError: offset out of range")

\* iterateSync(sortedSchema, (key, idx) => payloadArray[idx], {})
RECURSIVE ZipFrom(_, _, _, _)
ZipFrom(acc, sortedSchema, payloadArray, idx) ==
    IF idx > Len(sortedSchema) THEN acc
    ELSE ZipFrom(AssignKey(acc, sortedSchema[idx], payloadArray[idx]),
                 sortedSchema, payloadArray, idx + 1)

ZipSchema(currentSchema, payloadArray) ==
    ZipFrom(<<>>, SortLocale(currentSchema), payloadArray, 1)

\* The end of deserialize: the decoded value is returned as it is, or,
\* when the packet has a schema, checked to be an array of the schema's
\* length and rebuilt into an object.
RebuildValue(useSchema, currentSchema, decoded) ==
    IF decoded.msg # "" THEN Thrown(Err(decoded.msg))
    ELSE IF useSchema /\ currentSchema # <<>>
    THEN IF ~decoded.isArray
         THEN Thrown(Err("Encoded payload not array but schema flag is present"))
         ELSE IF Len(decoded.arr) # Len(currentSchema)
         THEN Thrown([msg |-> "Schema deserialization failed: expected N values, got M",
                      n |-> Len(currentSchema), m |-> Len(decoded.arr),
                      names |-> <<>>])
         ELSE Returned(ObjectValue(ZipSchema(currentSchema, decoded.arr)))
    ELSE IF decoded.isArray THEN Returned(ArrayValue(decoded.arr))
    ELSE Returned(NumberValue(decoded.arr[1]))

\* A variant that looks for the decompressor before it checks the CRC32.
CheckAndDecodeCrcLate(config, buf, flags, payload, currentSchema) ==
    IF flags[1] /\ ~config.useCompress
    THEN Thrown(Err("Packet compressed, but compressor plugin not used"))
    ELSE IF flags[2] /\ ~CanReadInt32U(buf, 2) THEN Thrown(RangeError)
    ELSE IF flags[2] /\ StoredCrc(buf, 2) # Crc32Buf(payload)
    THEN Thrown(Err("Input data CRC32 error"))
    ELSE RebuildValue(flags[3], currentSchema,
                      Decode(IF flags[1] THEN Decompress(payload) ELSE payload))

\* The part of deserialize after the payload region is cut: CRC32 check,
\* decompression, decoding.
CheckAndDecode(config, buf, flags, payload, currentSchema) ==
    IF flags[2] /\ ~CanReadInt32U(buf, 2) THEN Thrown(RangeError)
    ELSE IF flags[2] /\ StoredCrc(buf, 2) # Crc32Buf(payload)
    THEN Thrown(Err("Input data CRC32 error"))
    ELSE IF flags[1] /\ ~config.useCompress
    THEN Thrown(Err("Packet compressed, but compressor plugin not used"))
    ELSE RebuildValue(flags[3], currentSchema,
                      Decode(IF flags[1] THEN Decompress(payload) ELSE payload))

\* The part of deserialize after the flags are read: schema lookup, then
\* the payload region.
LookupAndDecode(regs, config, buf, flags, crcEnd) ==
    IF flags[3]
    THEN IF ~CanReadInt32U(buf, crcEnd) THEN Thrown(RangeError)
         ELSE IF BufToInt32U(buf, crcEnd) \notin DOMAIN regs
         THEN Thrown(Err("Cant find schema by id from payload"))
         ELSE CheckAndDecode(config, buf, flags, SubSeq(buf, crcEnd + 5, Len(buf)),
                             regs[BufToInt32U(buf, crcEnd)])
    ELSE CheckAndDecode(config, buf, flags, SubSeq(buf, crcEnd + 1, Len(buf)), <<>>)

Deserialize(regs, config, buf) ==
    IF Len(buf) < 1 THEN Thrown(RangeError)
    ELSE IF BufToInt8U(buf, 0) # Version THEN Thrown(Err("Input data version mismatch"))
    ELSE IF Len(buf) < 2 THEN Thrown(RangeError)
    ELSE LookupAndDecode(regs, config, buf, BufToBinFlags(buf, 1),
                         IF BufToBinFlags(buf, 1)[2] THEN 6 ELSE 2)

\* getPacketInfo: the error, or the fields of SerializerPacketInfo
\* (schemaId is Null when the packet has none).
GetPacketInfo(buf) ==
    IF Len(buf) < 2
    THEN [err |-> Err("Invalid packet: too short"), version |-> 0,
          useCompress |-> FALSE, useCRC32 |-> FALSE, useSchema |-> FALSE,
          schemaId |-> Null, dataSize |-> 0]
    ELSE LET flags == BufToBinFlags(buf, 1)
             crcEnd == IF flags[2] THEN 6 ELSE 2
         IN  IF flags[3] /\ Len(buf) < crcEnd + 4
             THEN [err |-> Err("Invalid packet: schema flag set but no schema id"),
                   version |-> 0, useCompress |-> FALSE, useCRC32 |-> FALSE,
                   useSchema |-> FALSE, schemaId |-> Null, dataSize |-> 0]
             ELSE [err |-> NoErr,
                   version |-> BufToInt8U(buf, 0),
                   useCompress |-> flags[1],
                   useCRC32 |-> flags[2],
                   useSchema |-> flags[3],
                   schemaId |-> IF flags[3] THEN <<BufToInt32U(buf, crcEnd)>> ELSE Null,
                   dataSize |-> Len(buf) - (IF flags[3] THEN crcEnd + 4 ELSE crcEnd)]

----------------------------------------------------------------------------
\* The schema registry.

\* An entry of a field list that is not a string (the number 5).
NonStringEntries == {"#5"}

\* typeof field === 'string' && field.length > 0
IsNonEmptyString(field) == field # "" /\ field \notin NonStringEntries

\* registerSchema(id, fields): the error thrown, or the registry after it.
RegisterOutcome(regs, id, fields) ==
    IF id < 0
    THEN [err |-> Err("Schema id must be a non-negative integer"), schemes |-> regs]
    ELSE IF fields = <<>>
    THEN [err |-> Err("Schema fields must be a non-empty array of strings"),
          schemes |-> regs]
    ELSE IF \E i \in DOMAIN fields : ~IsNonEmptyString(fields[i])
    THEN [err |-> Err("All schema fields must be non-empty strings"), schemes |-> regs]
    ELSE IF id \in DOMAIN regs
    THEN [err |-> [Err("Schema with id N already registered") EXCEPT !.n = id],
          schemes |-> regs]
    ELSE [err |-> NoErr,
          schemes |-> [i \in DOMAIN regs \cup {id} |->
                          IF i = id THEN SortLocale(fields) ELSE regs[i]]]

\* A variant that stores the list in the order given.
UpdateOutcomeUnsorted(regs, id, fields) ==
    IF id \notin DOMAIN regs
    THEN [err |-> [Err("Schema with id N not found") EXCEPT !.n = id], schemes |-> regs]
    ELSE IF fields = <<>>
    THEN [err |-> Err("Schema fields must be a non-empty array of strings"),
          schemes |-> regs]
    ELSE IF \E i \in DOMAIN fields : ~IsNonEmptyString(fields[i])
    THEN [err |-> Err("All schema fields must be non-empty strings"), schemes |-> regs]
    ELSE [err |-> NoErr, schemes |-> [regs EXCEPT ![id] = fields]]

\* updateSchema(id, fields)
UpdateOutcome(regs, id, fields) ==
    IF id \notin DOMAIN regs
    THEN [err |-> [Err("Schema with id N not found") EXCEPT !.n = id], schemes |-> regs]
    ELSE IF fields = <<>>
    THEN [err |-> Err("Schema fields must be a non-empty array of strings"),
          schemes |-> regs]
    ELSE IF \E i \in DOMAIN fields : ~IsNonEmptyString(fields[i])
    THEN [err |-> Err("All schema fields must be non-empty strings"), schemes |-> regs]
    ELSE [err |-> NoErr, schemes |-> [regs EXCEPT ![id] = SortLocale(fields)]]

\* A variant that empties the registry (this.schemes = {}).
UnregisterOutcomeAll(regs, id) ==
    IF id \notin DOMAIN regs
    THEN [err |-> [Err("Schema with id N not found") EXCEPT !.n = id], schemes |-> regs]
    ELSE [err |-> NoErr, schemes |-> <<>>]

\* unregisterSchema(id)
UnregisterOutcome(regs, id) ==
    IF id \notin DOMAIN regs
    THEN [err |-> [Err("Schema with id N not found") EXCEPT !.n = id], schemes |-> regs]
    ELSE [err |-> NoErr, schemes |-> [i \in DOMAIN regs \ {id} |-> regs[i]]]

\* setCompressionThreshold(threshold)
ThresholdOutcome(current, threshold) ==
    IF threshold < 0
    THEN [err |-> Err("Compression threshold must be a non-negative integer"),
          threshold |-> current]
    ELSE [err |-> NoErr, threshold |-> threshold]

----------------------------------------------------------------------------
\* State.

\* The last serialize call as the caller sees it: its arguments, and, when
\* it returned (present), the packet and how makePacket built it.
NoPkt ==
    [present |-> FALSE, bytes |-> <<>>, payload |-> <<>>, ref |-> Null,
     schema |-> Null, crcField |-> FALSE, idField |-> FALSE, compressed |-> FALSE,
     encodedLen |-> 0, dataStart |-> 0, regSame |-> TRUE]

Call(op) == [op |-> op, err |-> NoErr, value |-> NoValue]

\* What the caller holds besides the packet: the arguments of its last
\* registry call (id, and given, the field list as it was passed), the
\* array it has a reference to (from: the call it passed it to or got it
\* from) with its present contents, alias telling whether that array is
\* the very array the registry stores for an id, the mapping it was
\* returned (mapShared: it is the registry's own object), the number of
\* changes it made to what it holds, and the options object it constructed
\* the instance with (shared: the instance uses that very object), the ids
\* it has registered, in the order of its registerSchema calls, and, when
\* the caller is several tasks, what each task holds.
NoCaller ==
    [id |-> Null, given |-> <<>>, from |-> "", array |-> <<>>, alias |-> Null,
     map |-> <<>>, mapShared |-> FALSE, mutations |-> 0,
     options |-> [useCompress |-> FALSE, useCRC32 |-> TRUE, useSchema |-> FALSE],
     shared |-> FALSE, registered |-> <<>>, tasks |-> <<>>]

\* new Serializer(coder, options): options is copied; a compressor, when
\* given, has both methods (the constructor throws otherwise).
Init ==
    /\ schemes = <<>>
    /\ compressionLengthThreshold = DefaultThreshold
    /\ enableCompression = FALSE
    /\ options \in [useCompress : BOOLEAN, useCRC32 : BOOLEAN, useSchema : {FALSE}]
    /\ acceptedThreshold = DefaultThreshold
    /\ pkt = NoPkt
    /\ last = Call("constructor")
    /\ caller = NoCaller

\* The packet the caller holds after a registry call: it is kept through
\* one change of the registry, and given up by any other registry call.
Held(regs) ==
    IF regs # schemes /\ pkt.present /\ pkt.regSame
    THEN [pkt EXCEPT !.regSame = FALSE]
    ELSE NoPkt

RegisterSchema(id, fields) ==
    \E r \in {RegisterOutcome(schemes, id, fields)} :
        /\ schemes' = r.schemes
        /\ pkt' = Held(r.schemes)
        /\ last' = [Call("registerSchema") EXCEPT !.err = r.err]
        /\ UNCHANGED <<compressionLengthThreshold, enableCompression, options,
                       acceptedThreshold, caller>>

UpdateSchema(id, fields) ==
    \E r \in {UpdateOutcome(schemes, id, fields)} :
        /\ schemes' = r.schemes
        /\ pkt' = Held(r.schemes)
        /\ last' = [Call("updateSchema") EXCEPT !.err = r.err]
        /\ UNCHANGED <<compressionLengthThreshold, enableCompression, options,
                       acceptedThreshold, caller>>

UnregisterSchema(id) ==
    \E r \in {UnregisterOutcome(schemes, id)} :
        /\ schemes' = r.schemes
        /\ pkt' = Held(r.schemes)
        /\ last' = [Call("unregisterSchema") EXCEPT !.err = r.err]
        /\ UNCHANGED <<compressionLengthThreshold, enableCompression, options,
                       acceptedThreshold, caller>>

SetCompressionThreshold(threshold) ==
    \E r \in {ThresholdOutcome(compressionLengthThreshold, threshold)} :
        /\ compressionLengthThreshold' = r.threshold
        /\ acceptedThreshold' = IF r.err = NoErr THEN threshold ELSE acceptedThreshold
        /\ pkt' = NoPkt
        /\ last' = [Call("setCompressionThreshold") EXCEPT !.err = r.err]
        /\ UNCHANGED <<schemes, enableCompression, options, caller>>

\* serialize(payload, ref).  The caller keeps the packet returned; when
\* serialize throws there is none.
Serialize(P, ref) ==
    \E r \in {SerializeOutcome(schemes, options, compressionLengthThreshold,
                              enableCompression, P, ref)} :
        /\ options' = r.made.options
        /\ enableCompression' = r.made.enableCompression
        /\ pkt' = [present |-> r.err = NoErr, bytes |-> r.made.bytes,
                   payload |-> P, ref |-> ref, schema |-> r.schema,
                   crcField |-> r.made.crcField, idField |-> r.made.idField,
                   compressed |-> r.made.compressed,
                   encodedLen |-> r.encodedLen,
                   dataStart |-> Len(r.made.bytes) - Len(r.made.outData),
                   regSame |-> TRUE]
        /\ last' = [Call("serialize") EXCEPT !.err = r.err]
        /\ UNCHANGED <<schemes, compressionLengthThreshold, acceptedThreshold, caller>>

\* deserialize(packet) on the packet the caller holds.
DeserializePacket ==
    /\ pkt.present
    /\ \E r \in {Deserialize(schemes, options, pkt.bytes)} :
           last' = [Call("deserialize") EXCEPT !.err = r.err, !.value = r.value]
    /\ UNCHANGED <<schemes, compressionLengthThreshold, enableCompression, options,
                   acceptedThreshold, pkt, caller>>

\* Buffer.from(packet) with the byte at index i (from 1) changed by d.
Tampered(buf, i, d) == [buf EXCEPT ![i] = (@ + d) % 256]

\* deserialize on a copy of the held packet, one byte of whose payload
\* region was changed (the packet carries a CRC32).
DeserializeTampered(i, d) ==
    /\ pkt.present
    /\ pkt.regSame
    /\ pkt.crcField
    /\ i > pkt.dataStart
    /\ i <= Len(pkt.bytes)
    /\ \E r \in {Deserialize(schemes, options, Tampered(pkt.bytes, i, d))} :
           last' = [Call("deserialize tampered") EXCEPT !.err = r.err,
                                                        !.value = r.value]
    /\ UNCHANGED <<schemes, compressionLengthThreshold, enableCompression, options,
                   acceptedThreshold, pkt, caller>>

----------------------------------------------------------------------------
\* Inputs of the calls.

\* Field lists given to registerSchema and updateSchema: one field, two
\* fields listed in descending order, the empty list, an empty name.
FieldLists == {<<"a">>, <<"B", "a">>, <<>>, <<"">>}

\* Schema references given to serialize: none, or an id (registered or not).
Refs == {Null} \cup {<<id>> : id \in SchemaIds}

\* Thresholds given to setCompressionThreshold.
Thresholds == {-1, MaxThreshold}

\* Changes of a byte (added modulo 256).
ByteChanges == {1, 255}

\* No packet of the model is longer: header 2, CRC32 4, schema id 4,
\* compressor marker, array header 1, one byte a value.
MaxPacketLen == 11 + Len(CompressMarker) + Cardinality(Names)

Next ==
    \/ \E id \in SchemaIds, f \in FieldLists : RegisterSchema(id, f)
    \/ RegisterSchema(-1, <<"a">>)
    \/ \E id \in SchemaIds, f \in FieldLists : UpdateSchema(id, f)
    \/ \E id \in SchemaIds : UnregisterSchema(id)
    \/ \E t \in Thresholds : SetCompressionThreshold(t)
    \/ \E P \in Payloads, ref \in Refs : Serialize(P, ref)
    \/ DeserializePacket
    \/ \E i \in 1 .. MaxPacketLen, d \in ByteChanges : DeserializeTampered(i, d)

Spec == Init /\ [][Next]_vars

----------------------------------------------------------------------------
\* What the properties read off the state.

\* The flags in the header of the held packet: useCompress, useCRC32,
\* useSchema.
PktFlags == BufToBinFlags(pkt.bytes, 1)

\* The payload region of the held packet, as makePacket appended it.
PktData == SubSeq(pkt.bytes, pkt.dataStart + 1, Len(pkt.bytes))

\* The registered ids whose field set is the key set of the payload.
MatchingIds(P) == {id \in DOMAIN schemes : Range(schemes[id]) = Range(ObjectKeys(P))}

\* The value is an object with the keys and the values of the payload.
IsPayload(value, P) == value.kind = "object" /\ AsMap(value.obj) = AsMap(P)

\* deserialize was just called on the held packet, which serialize
\* returned and the registry has not changed since.
DeserializedOwnPacket == last.op = "deserialize" /\ pkt.present /\ pkt.regSame

----------------------------------------------------------------------------
\* C1: after registerSchema(id, F), for a payload P whose key set is F,
\* deserialize(serialize(P, id)) returns an object equal to P, for every
\* valid id, 0 included.
RoundTripWithSchema ==
    (/\ DeserializedOwnPacket
     /\ pkt.ref # Null
     /\ pkt.ref[1] \in MatchingIds(pkt.payload))
    => (last.err = NoErr /\ IsPayload(last.value, pkt.payload))

\* C2: for a payload P that matches no registered schema,
\* deserialize(serialize(P)) returns an object equal to P, keys included.
RoundTripWithoutSchema ==
    (/\ DeserializedOwnPacket
     /\ pkt.ref = Null
     /\ MatchingIds(pkt.payload) = {})
    => (last.err = NoErr /\ IsPayload(last.value, pkt.payload))

\* C3: in every packet serialize returned, the useSchema flag is set iff a
\* schema id field is in the header, the useCRC32 flag iff a CRC32 field,
\* and the payload region starts right after the fields the flags announce.
HeaderWellFormed ==
    pkt.present
    => (/\ PktFlags[3] <=> pkt.idField
        /\ PktFlags[2] <=> pkt.crcField
        /\ pkt.dataStart = 2 + 4 * Bit(PktFlags[2]) + 4 * Bit(PktFlags[3]))

\* C4: deserialize does not throw on a packet serialize returned, the
\* registry being unchanged in between, whatever calls came before.
AcceptsOwnPackets == DeserializedOwnPacket => last.err = NoErr

\* C5: with CRC32 enabled, changing one byte of the payload region of a
\* packet serialize returned makes deserialize fail with "Input data CRC32
\* error" (registry unchanged).
TamperingDetected ==
    (last.op = "deserialize tampered" /\ options.useCRC32 /\ pkt.crcField)
    => last.err = Err("Input data CRC32 error")

\* C6: deserialize fails with "Cant find schema by id from payload" on a
\* packet whose header has the schema flag and an id that is not in the
\* registry; in particular after serialize(P, id), unregisterSchema(id).
SchemaLookupIsHardError ==
    /\ (/\ last.op = "deserialize"
        /\ PktFlags[3]
        /\ CanReadInt32U(pkt.bytes, IF PktFlags[2] THEN 6 ELSE 2)
        /\ BufToInt32U(pkt.bytes, IF PktFlags[2] THEN 6 ELSE 2) \notin DOMAIN schemes)
       => last.err = Err("Cant find schema by id from payload")
    /\ (/\ last.op = "deserialize"
        /\ pkt.schema # Null
        /\ pkt.schema[1] \notin DOMAIN schemes)
       => last.err = Err("Cant find schema by id from payload")

\* C7: serialize(P, id) with an id that is not registered returns a packet
\* whose useSchema flag is false and that has no schema id field, whatever
\* calls came before.
GracefulDegradation ==
    (/\ last.op = "serialize"
     /\ pkt.ref # Null
     /\ pkt.ref[1] \notin DOMAIN schemes)
    => (/\ last.err = NoErr
        /\ pkt.present
        /\ ~PktFlags[3]
        /\ ~pkt.idField)

AutoDetection ==
    (last.op = "serialize" /\ pkt.ref = Null)
    => IF MatchingIds(pkt.payload) # {}
       THEN /\ last.err = NoErr
            /\ pkt.present
            /\ PktFlags[3]
            /\ GetPacketInfo(pkt.bytes).schemaId # Null
            /\ GetPacketInfo(pkt.bytes).schemaId[1] \in MatchingIds(pkt.payload)
       ELSE pkt.schema = Null /\ ~pkt.idField

\* The arity failure of serialize with a registered id.
ArityError(expected, got) ==
    [msg |-> "Schema validation failed: expected N fields, got M",
     n |-> expected, m |-> got, names |-> <<>>]

----------------------------------------------------------------------------
\* The two field failures of serialize with a registered id.
MissingFieldsError(names) ==
    [msg |-> "Schema validation failed: missing fields: NAMES",
     n |-> 0, m |-> 0, names |-> names]

UnexpectedFieldsError(names) ==
    [msg |-> "Schema validation failed: unexpected fields: NAMES",
     n |-> 0, m |-> 0, names |-> names]

\* The fields of the schema the payload lacks, and the keys of the payload
\* the schema does not have.
AbsentFields(fields, P) == {f \in Range(fields) : ~HasKey(P, f)}

ExtraKeys(fields, P) == Range(ObjectKeys(P)) \ Range(fields)

\* C11: serialize(P, id) with id registered fails with "missing fields"
\* listing exactly the schema fields P lacks when it lacks some, and with
\* "unexpected fields" listing exactly the keys outside the schema when it
\* has some (and lacks none).
ValidationNamesFields ==
    (/\ last.op = "serialize"
     /\ pkt.ref # Null
     /\ pkt.ref[1] \in DOMAIN schemes)
    => (/\ AbsentFields(schemes[pkt.ref[1]], pkt.payload) # {}
           => (/\ last.err.msg = MissingFieldsError(<<>>).msg
               /\ Range(last.err.names) = AbsentFields(schemes[pkt.ref[1]], pkt.payload))
        /\ (/\ AbsentFields(schemes[pkt.ref[1]], pkt.payload) = {}
            /\ ExtraKeys(schemes[pkt.ref[1]], pkt.payload) # {})
           => (/\ last.err.msg = UnexpectedFieldsError(<<>>).msg
               /\ Range(last.err.names) = ExtraKeys(schemes[pkt.ref[1]], pkt.payload)))

\* C17: for every packet serialize returned, getPacketInfo reports version
\* 3, the flags the packet was built with, the id of the schema used (none
\* when none was used) and the length of the payload region; it fails with
\* "Invalid packet: too short" on fewer than 2 bytes.
PacketInfoAsBuilt ==
    /\ \A buf \in {<<>>, <<Version>>} :
           GetPacketInfo(buf).err = Err("Invalid packet: too short")
    /\ pkt.present
       => (/\ GetPacketInfo(pkt.bytes).err = NoErr
           /\ GetPacketInfo(pkt.bytes).version = 3
           /\ GetPacketInfo(pkt.bytes).useCompress = pkt.compressed
           /\ GetPacketInfo(pkt.bytes).useCRC32 = pkt.crcField
           /\ GetPacketInfo(pkt.bytes).useSchema = (pkt.schema # Null)
           /\ GetPacketInfo(pkt.bytes).schemaId = pkt.schema
           /\ GetPacketInfo(pkt.bytes).dataSize = Len(PktData)
           /\ Len(PktData) = pkt.encodedLen
                             + (IF pkt.compressed THEN Len(CompressMarker) ELSE 0))

\* CRC-32 reference values of payload regions, most significant byte first
\* (220D7CC9, 5E849932, C78DC888, F6C3E5E1, 5013E4D9).
ReferenceCrc32 ==
    {<<<<144>>, <<34, 13, 124, 201>>>>,
     <<<<145, 1>>, <<94, 132, 153, 50>>>>,
     <<<<145, 2>>, <<199, 141, 200, 136>>>>,
     <<<<146, 1, 2>>, <<246, 195, 229, 225>>>>,
     <<CompressMarker \o <<145, 1>>, <<80, 19, 228, 217>>>>}

\* The four bytes of the CRC32 field and of the schema id field of the
\* held packet.
PktCrcField == SubSeq(pkt.bytes, 3, 6)

PktIdField == SubSeq(pkt.bytes, pkt.dataStart - 3, pkt.dataStart)

\* C18 as stated: the CRC32 and the schema id are carried most significant
\* byte first (schema id 1 as 00 00 00 01).
HeaderFieldsBigEndian ==
    pkt.present
    => (/\ pkt.idField => PktIdField = <<0, 0, 0, pkt.schema[1]>>
        /\ pkt.crcField
           => \A ref \in ReferenceCrc32 : PktData = ref[1] => PktCrcField = ref[2])

\* C18 amended: the CRC32 and the schema id are carried least significant
\* byte first (schema id 1 as 01 00 00 00), and getPacketInfo and
\* deserialize read the id back in that order.
HeaderFieldsLittleEndian ==
    /\ pkt.present
       => (/\ pkt.idField
              => (/\ PktIdField = <<pkt.schema[1], 0, 0, 0>>
                  /\ GetPacketInfo(pkt.bytes).schemaId = pkt.schema)
           /\ pkt.crcField
              => \A ref \in ReferenceCrc32 :
                     PktData = ref[1]
                     => PktCrcField = <<ref[2][4], ref[2][3], ref[2][2], ref[2][1]>>)
    /\ (DeserializedOwnPacket /\ pkt.idField)
       => (last.err = NoErr /\ IsPayload(last.value, pkt.payload))

\* C18 witness: a packet with both fields, schema id 1, was deserialized.
HeaderFieldsLittleEndianWitness ==
    /\ DeserializedOwnPacket
    /\ pkt.idField
    /\ pkt.crcField
    /\ pkt.schema = <<1>>
    /\ PktIdField = <<1, 0, 0, 0>>
    /\ PktData = <<145, 1>>
    /\ PktCrcField = <<50, 153, 132, 94>>
    /\ last.err = NoErr

\* The packet serialize returns for P on this instance when no registered
\* schema matches P.
SchemaLessPacket(P) ==
    SerializeOutcome(<<>>, options, compressionLengthThreshold, enableCompression,
                     P, Null).made.bytes

\* C19: the packet of serialize(P, id), id registered with P's keys, is
\* never longer than the schema-less packet of the same P.
SchemaSizeBenefit ==
    (/\ last.op = "serialize"
     /\ pkt.present
     /\ pkt.ref # Null
     /\ pkt.ref[1] \in MatchingIds(pkt.payload))
    => Len(pkt.bytes) <= Len(SchemaLessPacket(pkt.payload))

----------------------------------------------------------------------------
\* The registry and a caller that keeps references: to the field list it
\* passed, and to the array or the mapping it was returned.

\* The caller changes at most this many times what it holds.
MaxMutations == 1

\* A variant that sorts the caller's array in place and stores it
\* (fields.sort(...)).
SortedInPlace(fields) ==
    [stored |-> SortLocale(fields), array |-> SortLocale(fields), shared |-> TRUE]

\* [...fields].sort((a, b) => a.localeCompare(b)): the sorted array is a
\* new one, the caller's array is left as it was.
SortedCopy(fields) ==
    [stored |-> SortLocale(fields), array |-> fields, shared |-> FALSE]

\* getSchema(id): this.schemes[id] || null, the stored array itself.
GetSchema(regs, id) ==
    IF id \in DOMAIN regs
    THEN [value |-> ArrayValue(regs[id]), alias |-> <<id>>]
    ELSE [value |-> NoValue, alias |-> Null]

\* hasSchema(id): id in this.schemes
HasSchema(regs, id) == id \in DOMAIN regs

\* getRegisteredSchemas(): a new object with a copy of every stored array.
GetRegisteredSchemas(regs) ==
    [map |-> [id \in DOMAIN regs |-> regs[id]], shared |-> FALSE, alias |-> Null]

\* What the caller holds after registerSchema or updateSchema.
AfterStore(op, id, fields, err) ==
    [caller EXCEPT !.id = <<id>>, !.given = fields, !.from = op,
                   !.array = IF err = NoErr THEN SortedCopy(fields).array ELSE fields,
                   !.alias = IF err = NoErr /\ SortedCopy(fields).shared
                             THEN <<id>> ELSE Null,
                   !.map = <<>>, !.mapShared = FALSE]

RegisterSchemaCall(id, fields) ==
    \E r \in {RegisterOutcome(schemes, id, fields)} :
        /\ schemes' = r.schemes
        /\ last' = [Call("registerSchema") EXCEPT !.err = r.err]
        /\ caller' = AfterStore("registerSchema", id, fields, r.err)
        /\ UNCHANGED <<compressionLengthThreshold, enableCompression, options,
                       acceptedThreshold, pkt>>

UpdateSchemaCall(id, fields) ==
    \E r \in {UpdateOutcome(schemes, id, fields)} :
        /\ schemes' = r.schemes
        /\ last' = [Call("updateSchema") EXCEPT !.err = r.err]
        /\ caller' = AfterStore("updateSchema", id, fields, r.err)
        /\ UNCHANGED <<compressionLengthThreshold, enableCompression, options,
                       acceptedThreshold, pkt>>

UnregisterSchemaCall(id) ==
    \E r \in {UnregisterOutcome(schemes, id)} :
        /\ schemes' = r.schemes
        /\ last' = [Call("unregisterSchema") EXCEPT !.err = r.err]
        /\ caller' = [caller EXCEPT !.id = <<id>>, !.given = <<>>, !.from = "",
                                    !.array = <<>>, !.alias = Null,
                                    !.map = <<>>, !.mapShared = FALSE]
        /\ UNCHANGED <<compressionLengthThreshold, enableCompression, options,
                       acceptedThreshold, pkt>>

\* getSchema(id): the caller keeps the array returned.
GetSchemaCall(id) ==
    \E r \in {GetSchema(schemes, id)} :
        /\ last' = [Call("getSchema") EXCEPT !.value = r.value]
        /\ caller' = [caller EXCEPT !.id = <<id>>, !.given = <<>>, !.from = "getSchema",
                                    !.array = r.value.arr, !.alias = r.alias,
                                    !.map = <<>>, !.mapShared = FALSE]
        /\ UNCHANGED <<schemes, compressionLengthThreshold, enableCompression, options,
                       acceptedThreshold, pkt>>

\* getRegisteredSchemas(): the caller keeps the mapping returned and,
\* when id is in it, the array of id.
GetRegisteredSchemasCall(id) ==
    \E r \in {GetRegisteredSchemas(schemes)} :
        /\ last' = Call("getRegisteredSchemas")
        /\ caller' = [caller EXCEPT !.id = <<id>>, !.given = <<>>,
                                    !.from = "getRegisteredSchemas",
                                    !.array = IF id \in DOMAIN r.map THEN r.map[id]
                                              ELSE <<>>,
                                    !.alias = IF id \in DOMAIN r.map THEN r.alias
                                              ELSE Null,
                                    !.map = r.map, !.mapShared = r.shared]
        /\ UNCHANGED <<schemes, compressionLengthThreshold, enableCompression, options,
                       acceptedThreshold, pkt>>

\* The changes a caller makes to an array: push('a'), reverse(), and
\* array[0] = 'B'.
MutationKinds == {"push", "reverse", "overwrite"}

Mutated(array, kind) ==
    CASE kind = "push" -> Append(array, "a")
      [] kind = "reverse" -> [i \in DOMAIN array |-> array[Len(array) + 1 - i]]
      [] kind = "overwrite" -> IF array = <<>> THEN <<"B">>
                               ELSE [array EXCEPT ![1] = "B"]

\* The caller changes the array it holds.  An array that is the registry's
\* own changes in the registry too.
MutateArray(kind) ==
    /\ caller.from # ""
    /\ caller.mutations < MaxMutations
    /\ caller' = [caller EXCEPT !.array = Mutated(@, kind), !.mutations = @ + 1]
    /\ schemes' = IF caller.alias # Null /\ caller.alias[1] \in DOMAIN schemes
                  THEN [schemes EXCEPT ![caller.alias[1]] = Mutated(caller.array, kind)]
                  ELSE schemes
    /\ last' = Call("mutate array")
    /\ UNCHANGED <<compressionLengthThreshold, enableCompression, options,
                   acceptedThreshold, pkt>>

\* The caller deletes the entry of id from the mapping it was returned.
MutateMap(id) ==
    /\ caller.from = "getRegisteredSchemas"
    /\ id \in DOMAIN caller.map
    /\ caller.mutations < MaxMutations
    /\ caller' = [caller EXCEPT !.map = [i \in DOMAIN @ \ {id} |-> @[i]],
                                !.mutations = @ + 1]
    /\ schemes' = IF caller.mapShared
                  THEN [i \in DOMAIN schemes \ {id} |-> schemes[i]]
                  ELSE schemes
    /\ last' = Call("mutate map")
    /\ UNCHANGED <<compressionLengthThreshold, enableCompression, options,
                   acceptedThreshold, pkt>>

\* Field lists given to registerSchema and updateSchema by this caller: two
\* names in descending order, two canonically equivalent names, the empty
\* list, an empty name, an entry that is not a string.
CallerFieldLists ==
    {<<"B", "a">>, <<"e-nfc", "e-nfd">>, <<>>, <<"a", "">>, <<"a", "#5">>}

\* new Serializer(): the default options.
InitRegistry ==
    /\ Init
    /\ options = [useCompress |-> FALSE, useCRC32 |-> TRUE, useSchema |-> FALSE]

NextRegistry ==
    \/ \E id \in SchemaIds, f \in CallerFieldLists : RegisterSchemaCall(id, f)
    \/ \E id \in SchemaIds, f \in CallerFieldLists : UpdateSchemaCall(id, f)
    \/ \E id \in SchemaIds : UnregisterSchemaCall(id)
    \/ \E id \in SchemaIds : GetSchemaCall(id)
    \/ \E id \in SchemaIds : GetRegisteredSchemasCall(id)
    \/ \E kind \in MutationKinds : MutateArray(kind)
    \/ \E id \in SchemaIds : MutateMap(id)

SpecRegistry == InitRegistry /\ [][NextRegistry]_vars

----------------------------------------------------------------------------
\* What the registry properties read off the state.

\* The results of the registry queries are the same in two registries.
SameQueryResults(regs1, regs2) ==
    /\ \A id \in SchemaIds : GetSchema(regs1, id).value = GetSchema(regs2, id).value
    /\ GetRegisteredSchemas(regs1).map = GetRegisteredSchemas(regs2).map

\* The field list passes the validation of registerSchema and updateSchema.
ValidFields(fields) ==
    fields # <<>> /\ \A i \in DOMAIN fields : IsNonEmptyString(fields[i])

\* t holds the entries of s, each as many times.
IsPermutation(s, t) ==
    /\ Len(s) = Len(t)
    /\ \A x \in Range(s) \cup Range(t) :
           Cardinality({i \in DOMAIN s : s[i] = x})
           = Cardinality({i \in DOMAIN t : t[i] = x})

\* No entry of s is followed by one that localeCompare puts before it.
IsSortedList(s) ==
    \A i, j \in DOMAIN s : i < j => LocaleCompare(s[i], s[j]) <= 0

\* The orderings of a field list.
Orderings(fields) ==
    {g \in [DOMAIN fields -> Range(fields)] : IsPermutation(fields, g)}

NotFoundError(id) == [Err("Schema with id N not found") EXCEPT !.n = id]

AlreadyRegisteredError(id) == [Err("Schema with id N already registered") EXCEPT !.n = id]

\* C12: registerSchema(id, fields), fields a list it would accept, on an
\* id already in the registry fails with "Schema with id <id> already
\* registered" and changes no stored field list; an id keeps its field
\* list until updateSchema or unregisterSchema is called on it.
DuplicateIdRejected ==
    [][/\ (/\ last'.op = "registerSchema"
           /\ caller'.id[1] \in DOMAIN schemes
           /\ ValidFields(caller'.given))
          => (/\ last'.err = AlreadyRegisteredError(caller'.id[1])
              /\ schemes' = schemes)
       /\ \A id \in DOMAIN schemes :
              (id \notin DOMAIN schemes' \/ schemes'[id] # schemes[id])
              => (/\ last'.op \in {"updateSchema", "unregisterSchema"}
                  /\ caller'.id = <<id>>)]_vars

\* C13: registerSchema(id, fields) stores a sorted permutation of fields,
\* the same one for every order in which the caller lists the same names.
SortedDeterminism ==
    (last.op = "registerSchema" /\ last.err = NoErr)
    => (/\ IsPermutation(caller.given, schemes[caller.id[1]])
        /\ IsSortedList(schemes[caller.id[1]])
        /\ GetSchema(schemes, caller.id[1]).value = ArrayValue(schemes[caller.id[1]])
        /\ \A g \in Orderings(caller.given) :
               GetSchema(RegisterOutcome(<<>>, caller.id[1], g).schemes,
                         caller.id[1]).value
               = GetSchema(schemes, caller.id[1]).value)

\* C14: changing the array getSchema(id) returned changes the result of no
\* later query.
GetSchemaReturnsCopy ==
    [][(last'.op = "mutate array" /\ caller.from = "getSchema")
       => SameQueryResults(schemes', schemes)]_vars

\* C15: registerSchema and updateSchema leave the caller's array as it
\* was; changing that array later, or an array or the mapping returned by
\* getRegisteredSchemas, changes the result of no later query.
NoSharedArrays ==
    [][/\ last'.op \in {"registerSchema", "updateSchema"}
          => caller'.array = caller'.given
       /\ (/\ last'.op = "mutate array"
           /\ caller.from \in {"registerSchema", "updateSchema", "getRegisteredSchemas"})
          => SameQueryResults(schemes', schemes)
       /\ last'.op = "mutate map" => SameQueryResults(schemes', schemes)]_vars

\* C15 witness: the caller changed the unsorted list it had registered, and
\* the registry still has the sorted list.
NoSharedArraysWitness ==
    /\ last.op = "mutate array"
    /\ caller.from = "registerSchema"
    /\ caller.given = <<"B", "a">>
    /\ caller.array = <<"B", "a", "a">>
    /\ caller.id[1] \in DOMAIN schemes
    /\ GetSchema(schemes, caller.id[1]).value = ArrayValue(<<"a", "B">>)

\* C20: updateSchema(id, fields) fails with "Schema with id <id> not
\* found" when id is absent, else with the field errors of registerSchema
\* when fields is empty or has an empty or non-string entry, the registry
\* unchanged; on success getSchema(id) is the sorted new list and no other
\* id changes.
UpdateSchemaContract ==
    [][last'.op = "updateSchema"
       => IF caller'.id[1] \notin DOMAIN schemes
          THEN last'.err = NotFoundError(caller'.id[1]) /\ schemes' = schemes
          ELSE IF caller'.given = <<>>
          THEN /\ last'.err = Err("Schema fields must be a non-empty array of strings")
               /\ schemes' = schemes
          ELSE IF ~ValidFields(caller'.given)
          THEN /\ last'.err = Err("All schema fields must be non-empty strings")
               /\ schemes' = schemes
          ELSE /\ last'.err = NoErr
               /\ DOMAIN schemes' = DOMAIN schemes
               /\ GetSchema(schemes', caller'.id[1]).value.kind = "array"
               /\ IsPermutation(caller'.given,
                                GetSchema(schemes', caller'.id[1]).value.arr)
               /\ IsSortedList(GetSchema(schemes', caller'.id[1]).value.arr)
               /\ \A id \in DOMAIN schemes \ {caller'.id[1]} :
                      schemes'[id] = schemes[id]]_vars

\* C20 witness: an update with an unsorted list replaced another list of
\* the id, a second id being registered.
UpdateSchemaContractWitness ==
    /\ last.op = "updateSchema"
    /\ last.err = NoErr
    /\ caller.given = <<"B", "a">>
    /\ caller.id = <<0>>
    /\ DOMAIN schemes = {0, 1}
    /\ schemes[0] = <<"a", "B">>
    /\ schemes[1] = <<"e-nfc", "e-nfd">>

\* C21: unregisterSchema(id) fails with "Schema with id <id> not found"
\* when id is absent, the instance unchanged; on success hasSchema(id) is
\* false and getSchema(id) null, every other id keeps its field list, and
\* registerSchema(id, fields) is accepted again.
UnregisterSchemaContract ==
    [][last'.op = "unregisterSchema"
       => IF ~HasSchema(schemes, caller'.id[1])
          THEN /\ last'.err = NotFoundError(caller'.id[1])
               /\ UNCHANGED instance
          ELSE /\ last'.err = NoErr
               /\ ~HasSchema(schemes', caller'.id[1])
               /\ GetSchema(schemes', caller'.id[1]).value = NoValue
               /\ \A id \in DOMAIN schemes \ {caller'.id[1]} :
                      /\ HasSchema(schemes', id)
                      /\ GetSchema(schemes', id).value = GetSchema(schemes, id).value
               /\ \A f \in {g \in CallerFieldLists : ValidFields(g)} :
                      /\ RegisterOutcome(schemes', caller'.id[1], f).err = NoErr
                      /\ HasSchema(RegisterOutcome(schemes', caller'.id[1], f).schemes,
                                   caller'.id[1])]_vars

\* C21 witness: id 0 was unregistered while id 1 stays registered with its
\* list.
UnregisterSchemaContractWitness ==
    /\ last.op = "unregisterSchema"
    /\ last.err = NoErr
    /\ caller.id = <<0>>
    /\ ~HasSchema(schemes, 0)
    /\ HasSchema(schemes, 1)
    /\ schemes[1] = <<"a", "B">>

----------------------------------------------------------------------------
\* The constructor and a caller that keeps its options object.

\* A variant that keeps the caller's object (this.options = options).
KeepOptions(given) == [options |-> given, shared |-> TRUE]

\* this.options = {...options}: a new object with the same entries.
CopyOptions(given) == [options |-> given, shared |-> FALSE]

\* The options objects given to the constructor (useCompress: a
\* compressor or null).
OptionsGiven == [useCompress : BOOLEAN, useCRC32 : BOOLEAN, useSchema : {FALSE}]

\* new Serializer(coder, given), the caller keeping given.
InitOptions ==
    /\ schemes = <<>>
    /\ compressionLengthThreshold = DefaultThreshold
    /\ enableCompression = FALSE
    /\ acceptedThreshold = DefaultThreshold
    /\ pkt = NoPkt
    /\ last = Call("constructor")
    /\ \E given \in OptionsGiven :
           /\ options = CopyOptions(given).options
           /\ caller = [NoCaller EXCEPT !.options = given,
                                        !.shared = CopyOptions(given).shared]

\* The entries of the options object the caller changes: useCRC32 is
\* negated, useCompress is replaced (a compressor by null, null by a
\* compressor).
OptionEntries == {"useCRC32", "useCompress"}

Negated(opts, entry) ==
    IF entry = "useCRC32" THEN [opts EXCEPT !.useCRC32 = ~@]
    ELSE [opts EXCEPT !.useCompress = ~@]

\* The caller changes an entry of its options object.  An object that is
\* the instance's own changes in the instance too.
MutateOptions(entry) ==
    /\ caller' = [caller EXCEPT !.options = Negated(@, entry)]
    /\ options' = IF caller.shared THEN Negated(options, entry) ELSE options
    /\ last' = Call("mutate options")
    /\ UNCHANGED <<schemes, compressionLengthThreshold, enableCompression,
                   acceptedThreshold, pkt>>

NextOptions ==
    \/ \E entry \in OptionEntries : MutateOptions(entry)
    \/ \E t \in Thresholds : SetCompressionThreshold(t)
    \/ \E P \in Payloads : Serialize(P, Null)
    \/ DeserializePacket

SpecOptions == InitOptions /\ [][NextOptions]_vars

\* C16: a change of the caller's options object after the construction
\* changes the outcome of no later serialize or deserialize call.
OptionsDefensiveCopy ==
    [][last'.op = "mutate options"
       => (/\ options' = options
           /\ \A P \in Payloads :
                  SerializeOutcome(schemes', options', compressionLengthThreshold',
                                   enableCompression', P, Null)
                  = SerializeOutcome(schemes, options, compressionLengthThreshold,
                                     enableCompression, P, Null)
           /\ pkt.present
              => Deserialize(schemes', options', pkt'.bytes)
                 = Deserialize(schemes, options, pkt.bytes))]_vars

\* C16 witness: the instance was built with CRC32 and a compressor, the
\* caller then cleared both entries of its object, and a later serialize
\* still compressed and wrote the CRC32.
OptionsDefensiveCopyWitness ==
    /\ last.op = "serialize"
    /\ ~caller.options.useCRC32
    /\ ~caller.options.useCompress
    /\ pkt.present
    /\ PktFlags[1]
    /\ PktFlags[2]
    /\ pkt.crcField
    /\ pkt.compressed

----------------------------------------------------------------------------
\* deserialize and getPacketInfo on buffers that come from elsewhere.

\* The payload regions of those buffers: nothing, the arrays [1] and
\* [1, 2], the number 5, an array cut short, and a compressed array.
DataRegions ==
    {<<>>, <<145, 1>>, <<146, 1, 2>>, <<5>>, <<146, 1>>, Compress(<<146, 1, 2>>)}

\* The flag bytes: useCompress 128, useCRC32 64, useSchema 32.
FlagBytes == {128 * c + 64 * k + 32 * s : c, k, s \in 0 .. 1}

\* A buffer laid out as makePacket lays a packet out: the CRC32 field holds
\* the checksum of the region or another word, the id field any id.
LaidOut(flagByte, crcRight, id, data) ==
    <<Version, flagByte>>
    \o (IF (flagByte \div 64) % 2 = 1
        THEN (IF crcRight THEN Crc32Buf(data)
              ELSE [Crc32Buf(data) EXCEPT ![1] = (@ + 1) % 256])
        ELSE <<>>)
    \o (IF (flagByte \div 32) % 2 = 1 THEN Int32UToBuf(id) ELSE <<>>)
    \o data

WholeBuffers ==
    {LaidOut(f, c, id, d) :
        f \in FlagBytes, c \in BOOLEAN, id \in 0 .. MaxSchemaId + 1, d \in DataRegions}

\* The buffers received: whole ones, ones cut short, ones of another
\* version.
Buffers ==
    WholeBuffers
    \cup UNION {{SubSeq(b, 1, n) : n \in 0 .. Len(b)} : b \in WholeBuffers}
    \cup {[b EXCEPT ![1] = Version - 1] : b \in WholeBuffers}

\* The value getPacketInfo returned, by its dataSize.
PacketInfoValue(info) == [kind |-> "packetInfo", arr |-> <<info.dataSize>>, obj |-> <<>>]

\* The caller receives a buffer, after the construction or a registry call.
Receive(buf) ==
    /\ last.op \notin {"receive", "deserialize received", "getPacketInfo"}
    /\ pkt' = [NoPkt EXCEPT !.bytes = buf]
    /\ last' = Call("receive")
    /\ UNCHANGED <<schemes, compressionLengthThreshold, enableCompression, options,
                   acceptedThreshold, caller>>

\* deserialize(buf) on the buffer received.
DeserializeReceived ==
    /\ last.op \in {"receive", "getPacketInfo"}
    /\ \E r \in {Deserialize(schemes, options, pkt.bytes)} :
           last' = [Call("deserialize received") EXCEPT !.err = r.err,
                                                        !.value = r.value]
    /\ UNCHANGED <<schemes, compressionLengthThreshold, enableCompression, options,
                   acceptedThreshold, pkt, caller>>

\* getPacketInfo(buf) on the buffer received.
GetPacketInfoReceived ==
    /\ last.op \in {"receive", "deserialize received"}
    /\ \E r \in {GetPacketInfo(pkt.bytes)} :
           last' = [Call("getPacketInfo") EXCEPT
                        !.err = r.err,
                        !.value = IF r.err = NoErr THEN PacketInfoValue(r) ELSE NoValue]
    /\ UNCHANGED <<schemes, compressionLengthThreshold, enableCompression, options,
                   acceptedThreshold, pkt, caller>>

\* The field list of the schemas of the receiver.
ReceiverFieldLists == {<<"B", "a">>}

\* new Serializer(coder, options), with or without a compressor.
InitReceive ==
    /\ Init
    /\ options.useCRC32

NextReceive ==
    \/ \E id \in SchemaIds, f \in ReceiverFieldLists : RegisterSchema(id, f)
    \/ \E id \in SchemaIds : UnregisterSchema(id)
    \/ \E buf \in Buffers : Receive(buf)
    \/ DeserializeReceived
    \/ GetPacketInfoReceived

SpecReceive == InitReceive /\ [][NextReceive]_vars

\* What the properties read off the buffer received: the flags, the
\* offsets of the header fields, the payload region, the id and the schema
\* it names, and the value the coder decodes from the region.
RecvFlags == BufToBinFlags(pkt.bytes, 1)

RecvCrcEnd == IF RecvFlags[2] THEN 6 ELSE 2

RecvDataStart == RecvCrcEnd + (IF RecvFlags[3] THEN 4 ELSE 0)

\* The buffer holds the two header bytes and every field they announce.
HeaderReadable == Len(pkt.bytes) >= 2 /\ Len(pkt.bytes) >= RecvDataStart

RecvData == SubSeq(pkt.bytes, RecvDataStart + 1, Len(pkt.bytes))

RecvId == BufToInt32U(pkt.bytes, RecvCrcEnd)

RecvSchema ==
    IF RecvFlags[3] /\ RecvId \in DOMAIN schemes THEN schemes[RecvId] ELSE <<>>

RecvDecoded == Decode(IF RecvFlags[1] THEN Decompress(RecvData) ELSE RecvData)

\* The checks of deserialize in the order claimed, each by what makes it
\* fail on the buffer received (the header being readable).
CheckFails(k) ==
    CASE k = 1 -> BufToInt8U(pkt.bytes, 0) # Version
      [] k = 2 -> RecvFlags[3] /\ RecvId \notin DOMAIN schemes
      [] k = 3 -> RecvFlags[2] /\ StoredCrc(pkt.bytes, 2) # Crc32Buf(RecvData)
      [] k = 4 -> RecvFlags[1] /\ ~options.useCompress
      [] k = 5 -> /\ RecvFlags[3]
                  /\ RecvSchema # <<>>
                  /\ RecvDecoded.msg = ""
                  /\ ~RecvDecoded.isArray
      [] k = 6 -> /\ RecvFlags[3]
                  /\ RecvSchema # <<>>
                  /\ RecvDecoded.msg = ""
                  /\ RecvDecoded.isArray
                  /\ Len(RecvDecoded.arr) # Len(RecvSchema)

CheckMessages ==
    <<"Input data version mismatch",
      "Cant find schema by id from payload",
      "Input data CRC32 error",
      "Packet compressed, but compressor plugin not used",
      "Encoded payload not array but schema flag is present",
      "Schema deserialization failed: expected N values, got M">>

\* C22: deserialize reports the first failing check in the order version,
\* schema id not in the registry, CRC32, missing decompressor, value not
\* an array, length other than the schema's; a wrong version byte is
\* reported whatever follows it; on a failing CRC32 check the call ends
\* before the decompressor and the coder are reached (the CRC32 field
\* being readable and not the checksum of the region deserialize cuts).
DeserializeCheckOrder ==
    last.op = "deserialize received"
    => (/\ (Len(pkt.bytes) >= 1 /\ BufToInt8U(pkt.bytes, 0) # Version)
           => last.err = Err(CheckMessages[1])
        /\ HeaderReadable
           => \A k \in DOMAIN CheckMessages :
                  (CheckFails(k) /\ \A j \in 1 .. k - 1 : ~CheckFails(j))
                  <=> last.err.msg = CheckMessages[k]
        /\ last.err.msg \in Range(CheckMessages) \ {CheckMessages[1]}
           => HeaderReadable
        /\ (/\ Len(pkt.bytes) >= 2
            /\ RecvFlags[2]
            /\ CanReadInt32U(pkt.bytes, 2)
            /\ StoredCrc(pkt.bytes, 2) # Crc32Buf(RecvData))
           => last.err.msg \in {CheckMessages[1], CheckMessages[2], CheckMessages[3],
                                RangeError.msg})

\* C22 witness: a buffer with a bad CRC32, the compression flag and an
\* undecodable region, received by an instance without a compressor, was
\* refused for its CRC32.
DeserializeCheckOrderWitness ==
    /\ last.op = "deserialize received"
    /\ HeaderReadable
    /\ CheckFails(3)
    /\ CheckFails(4)
    /\ RecvData = <<146, 1>>
    /\ last.err = Err("Input data CRC32 error")

\* C27: on a buffer of at least 2 bytes getPacketInfo fails or returns a
\* dataSize >= 0 that is the number of bytes after the header fields the
\* flags announce; a buffer too short for an announced CRC32 or schema id
\* field is rejected.
PacketInfoDataSize ==
    (last.op = "getPacketInfo" /\ Len(pkt.bytes) >= 2)
    => (/\ last.err = NoErr
           => (/\ last.value.kind = "packetInfo"
               /\ last.value.arr[1] >= 0
               /\ last.value.arr[1] = Len(RecvData)
               /\ Len(pkt.bytes) = RecvDataStart + last.value.arr[1])
        /\ Len(pkt.bytes) < RecvDataStart => last.err # NoErr)

----------------------------------------------------------------------------
\* Auto-detection among schemas with the same fields, the caller keeping
\* the order of its registrations.

\* The ids of those schemas: one more than the other calls use, so that
\* two ids other than 0 can hold the same fields.
DetectIds == 0 .. MaxSchemaId + 1

\* Field lists registerSchema accepts.
ValidFieldLists == {<<"a">>, <<"B", "a">>}

RegisterInOrder(id, fields) ==
    \E r \in {RegisterOutcome(schemes, id, fields)} :
        /\ schemes' = r.schemes
        /\ pkt' = NoPkt
        /\ last' = [Call("registerSchema") EXCEPT !.err = r.err]
        /\ caller' = [caller EXCEPT !.registered = IF r.err = NoErr THEN Append(@, id)
                                                   ELSE @]
        /\ UNCHANGED <<compressionLengthThreshold, enableCompression, options,
                       acceptedThreshold>>

UnregisterInOrder(id) ==
    \E r \in {UnregisterOutcome(schemes, id)} :
        /\ schemes' = r.schemes
        /\ pkt' = NoPkt
        /\ last' = [Call("unregisterSchema") EXCEPT !.err = r.err]
        /\ caller' = [caller EXCEPT !.registered = IF r.err = NoErr
                                                   THEN SelectSeq(@, LAMBDA x : x # id)
                                                   ELSE @]
        /\ UNCHANGED <<compressionLengthThreshold, enableCompression, options,
                       acceptedThreshold>>

NextDetect ==
    \/ \E id \in DetectIds, f \in ValidFieldLists : RegisterInOrder(id, f)
    \/ \E id \in DetectIds : UnregisterInOrder(id)
    \/ \E P \in Payloads : Serialize(P, Null)

SpecDetect == InitRegistry /\ [][NextDetect]_vars

\* Among the registered ids whose fields are P's keys, the one registered
\* first.
FirstRegistered(P) ==
    caller.registered[Min({i \in DOMAIN caller.registered :
                              caller.registered[i] \in MatchingIds(P)})]

\* serialize(P) was just called without a reference, P's keys being the
\* fields of at least one registered schema.
AutoDetected ==
    /\ last.op = "serialize"
    /\ pkt.ref = Null
    /\ MatchingIds(pkt.payload) # {}

----------------------------------------------------------------------------
\* The order of the field names.

\* By code unit "B" (0x42) comes before "a" (0x61): a list in ascending
\* code-unit order has no "a" before a "B".
CodeUnitSorted(s) == \A i, j \in DOMAIN s : i < j => ~(s[i] = "a" /\ s[j] = "B")

\* C24: the field lists registerSchema and updateSchema store, the order
\* of the values serialize writes with a schema, and the key order of the
\* object deserialize returns, are ascending by code unit ("B" before "a").
OrdinalFieldOrder ==
    /\ \A id \in DOMAIN schemes : CodeUnitSorted(schemes[id])
    /\ (pkt.present /\ pkt.schema # Null /\ Len(pkt.payload) = Cardinality(Names))
       => Decode(IF pkt.compressed THEN Decompress(PktData) ELSE PktData).arr
          = <<FieldValue["B"], FieldValue["a"]>>
    /\ (DeserializedOwnPacket /\ last.value.kind = "object")
       => CodeUnitSorted(ObjectKeys(last.value.obj))

----------------------------------------------------------------------------
\* Several tasks on one serializer: each registers a schema under its own
\* id, serializes a payload with that id and deserializes the packet.  A
\* call runs to its end before another task's call starts.

NumTasks == 2

Tasks == 1 .. NumTasks

\* The payload of task t: the fields as keys, with values no other task
\* uses.
TaskPayload(t, fields) ==
    [i \in DOMAIN fields |-> <<fields[i], 10 * t + FieldValue[fields[i]]>>]

\* A task that has not started: where it is, its id, its field list and its
\* payload, the packet serialize returned and what deserialize returned.
NewTask(t, id, fields) ==
    [pc |-> "register", id |-> id, fields |-> fields,
     payload |-> TaskPayload(t, fields), packet |-> <<>>, result |-> Returned(NoValue)]

InitTasks ==
    /\ schemes = <<>>
    /\ compressionLengthThreshold = DefaultThreshold
    /\ enableCompression = FALSE
    /\ options \in [useCompress : BOOLEAN, useCRC32 : BOOLEAN, useSchema : {FALSE}]
    /\ acceptedThreshold = DefaultThreshold
    /\ pkt = NoPkt
    /\ last = Call("constructor")
    /\ \E ids \in {f \in [Tasks -> SchemaIds] : IsInjective(f)},
          lists \in [Tasks -> ValidFieldLists] :
           caller = [NoCaller EXCEPT
                        !.tasks = [t \in Tasks |-> NewTask(t, ids[t], lists[t])]]

\* A call that throws rejects the task's promise: the task stops (pc
\* "failed").

TaskRegister(t) ==
    /\ caller.tasks[t].pc = "register"
    /\ \E r \in {RegisterOutcome(schemes, caller.tasks[t].id, caller.tasks[t].fields)} :
           /\ schemes' = r.schemes
           /\ last' = [Call("registerSchema") EXCEPT !.err = r.err]
           /\ caller' = [caller EXCEPT !.tasks[t].pc = IF r.err = NoErr THEN "serialize"
                                                       ELSE "failed"]
    /\ UNCHANGED <<compressionLengthThreshold, enableCompression, options,
                   acceptedThreshold, pkt>>

TaskSerialize(t) ==
    /\ caller.tasks[t].pc = "serialize"
    /\ \E r \in {SerializeOutcome(schemes, options, compressionLengthThreshold,
                                 enableCompression, caller.tasks[t].payload,
                                 <<caller.tasks[t].id>>)} :
           /\ options' = r.made.options
           /\ enableCompression' = r.made.enableCompression
           /\ last' = [Call("serialize") EXCEPT !.err = r.err]
           /\ caller' = [caller EXCEPT !.tasks[t].pc = IF r.err = NoErr THEN "deserialize"
                                                       ELSE "failed",
                                       !.tasks[t].packet = r.made.bytes]
    /\ UNCHANGED <<schemes, compressionLengthThreshold, acceptedThreshold, pkt>>

TaskDeserialize(t) ==
    /\ caller.tasks[t].pc = "deserialize"
    /\ \E r \in {Deserialize(schemes, options, caller.tasks[t].packet)} :
           /\ last' = [Call("deserialize") EXCEPT !.err = r.err, !.value = r.value]
           /\ caller' = [caller EXCEPT !.tasks[t].pc = IF r.err = NoErr THEN "done"
                                                       ELSE "failed",
                                       !.tasks[t].result = r]
    /\ UNCHANGED <<schemes, compressionLengthThreshold, enableCompression, options,
                   acceptedThreshold, pkt>>

NextTasks ==
    \/ \E t \in Tasks : TaskRegister(t)
    \/ \E t \in Tasks : TaskSerialize(t)
    \/ \E t \in Tasks : TaskDeserialize(t)

SpecTasks == InitTasks /\ [][NextTasks]_vars

\* C25: in every interleaving of the tasks' calls no call fails, every
\* task's deserialize returns the task's own payload, and when all tasks
\* are done every id is still registered.
TaskIndependence ==
    /\ \A t \in Tasks :
           /\ caller.tasks[t].pc # "failed"
           /\ caller.tasks[t].pc = "done"
              => IsPayload(caller.tasks[t].result.value, caller.tasks[t].payload)
    /\ (\A t \in Tasks : caller.tasks[t].pc = "done")
       => \A t \in Tasks : HasSchema(schemes, caller.tasks[t].id)

----------------------------------------------------------------------------
\* C26: no serialize or deserialize call changes the instance's
\* configuration, nor the packet any later serialize call returns for the
\* same payload and reference under the same registry and threshold.
SerializeHistoryIndependent ==
    [][last'.op \in {"serialize", "deserialize", "deserialize tampered"}
       => (/\ options' = options
           /\ \A P \in Payloads, ref \in Refs :
                  SerializeOutcome(schemes', options', compressionLengthThreshold',
                                   enableCompression', P, ref).made.bytes
                  = SerializeOutcome(schemes, options, compressionLengthThreshold,
                                     enableCompression, P, ref).made.bytes)]_vars

----------------------------------------------------------------------------
\* Schemas that change while a packet is held, and schemas with a
\* repeated name.

\* Field lists given to registerSchema and updateSchema: two lists of one
\* name, a list of two names, a list that repeats a name.
SchemaFieldLists == {<<"a">>, <<"B">>, <<"B", "a">>, <<"a", "a">>}

NextSchemas ==
    \/ \E id \in SchemaIds, f \in SchemaFieldLists : RegisterSchema(id, f)
    \/ \E id \in SchemaIds, f \in SchemaFieldLists : UpdateSchema(id, f)
    \/ \E id \in SchemaIds : UnregisterSchema(id)
    \/ \E P \in Payloads, ref \in Refs : Serialize(P, ref)
    \/ DeserializePacket

SpecSchemas == InitRegistry /\ [][NextSchemas]_vars

\* C28: deserialize of a packet serialize(P, id) made with the schema of
\* id returns a map equal to P or fails, whatever registerSchema,
\* updateSchema and unregisterSchema calls came after the packet was made.
SchemaPacketKeepsRecord ==
    (/\ last.op = "deserialize"
     /\ pkt.present
     /\ pkt.ref # Null
     /\ pkt.schema # Null)
    => (last.err # NoErr \/ IsPayload(last.value, pkt.payload))

\* serialize was just called with the id of a registered schema.
SerializedWithSchema ==
    /\ last.op = "serialize"
    /\ pkt.ref # Null
    /\ pkt.ref[1] \in DOMAIN schemes

----------------------------------------------------------------------------
\* C30: for every id registerSchema accepted and every payload with the
\* fields of its schema, serialize(P, id) succeeds and the packet carries
\* the id: getPacketInfo and deserialize read it back from the 4-byte field.
SchemaIdFitsHeader ==
    (/\ last.op = "serialize"
     /\ pkt.ref # Null
     /\ pkt.ref[1] \in MatchingIds(pkt.payload))
    => (/\ last.err = NoErr
        /\ pkt.present
        /\ GetPacketInfo(pkt.bytes).err = NoErr
        /\ GetPacketInfo(pkt.bytes).schemaId = pkt.ref
        /\ HeaderReadable
        /\ RecvFlags[3]
        /\ RecvId = pkt.ref[1]
        /\ Deserialize(schemes, options, pkt.bytes).err = NoErr)

====
